---- MODULE Spec2Model ----
(***************************************************************************)
(* Model of the streaming transcription server:                            *)
(*   server/ws_manager.py        per-connection audio handler, reconcilers *)
(*   server/models.py            transcription boundary                    *)
(*   server/ingestion_buffer.py  session aggregation buffer                *)
(*                                                                         *)
(* Units.  Buffer sizes are byte counts with the source's values.  Wall    *)
(* clock (time.time()) is counted in whole seconds.  Segment timestamps    *)
(* and the end-time watermark are counted in tenths of a second.  Energy   *)
(* is fixed-point, in thousandths of the normalised [-1,1] scale.  A text  *)
(* is the sequence of its whitespace-separated words, so two texts that    *)
(* differ only in whitespace are the same value and "x.strip() is          *)
(* non-empty" is "x has at least one word".                                *)
(***************************************************************************)
EXTENDS Integers, Sequences, FiniteSets, TLC

VARIABLES
    clock,          \* time.time(), seconds
    \* ---- ws_manager.handle_audio_stream, one entry per connection
    state,          \* AudioState of the connection
    hpc,            \* handler position: "new", "recv", "transcribing", "closed"
    process_chunk,  \* length of the slice handed to the transcriber (local)
    obs,            \* what the handler did with the last frame it received
    \* ---- ingestion_buffer.IngestionBuffer (module-level singleton)
    current_chunk,  \* ContextChunk or NoChunk
    lock,           \* holder of IngestionBuffer._lock or Free
    is_running,     \* IngestionBuffer._is_running
    batch_task,     \* IngestionBuffer._batch_task: "none", "scheduled", "cancelled"
    tpc,            \* per caller: position inside the buffer's methods
    tloc,           \* per caller: locals (operation, argument, saved time, detached chunk)
    stored,         \* documents added to the storage collection, in order
    \* ---- extract_new_text_fallback applied to drawn inputs
    fb_pc, fb_prev, fb_new, fb_out,
    \* ---- extract_new_text_with_timestamps applied to drawn inputs
    ts_pc, ts_prev, ts_segs, ts_out

streamVars == <<state, hpc, process_chunk, obs>>
ingestVars == <<current_chunk, lock, is_running, batch_task, tpc, tloc, stored>>
fbVars     == <<fb_pc, fb_prev, fb_new, fb_out>>
tsVars     == <<ts_pc, ts_prev, ts_segs, ts_out>>
vars       == <<clock, streamVars, ingestVars, fbVars, tsVars>>

(***************************************************************************)
(* Bounds of the model                                                     *)
(***************************************************************************)
MaxClock == 3        \* the clock stops advancing here
MaxSegs == 2         \* segments returned by one transcription pass
MaxFrags == 2        \* fragments of one kind appended to one chunk
MaxPrevWords == 3    \* words of a drawn previous text
MaxNewWords == 4     \* words of a drawn new text
LongWords == 5       \* words of the shorter of the long drawn texts

Min(a, b) == IF a < b THEN a ELSE b
Max(a, b) == IF a > b THEN a ELSE b

(***************************************************************************)
(* ws_manager.py configuration                                             *)
(***************************************************************************)
SAMPLE_RATE == 16000
BYTES_PER_SAMPLE == 2
BUFFER_DURATION_SEC == 4
\* 2.5 s, in tenths of a second
SLIDE_DURATION_SEC == 25
MAX_BUFFER_SIZE == SAMPLE_RATE * BYTES_PER_SAMPLE * BUFFER_DURATION_SEC
MIN_BUFFER_SIZE == SAMPLE_RATE * BYTES_PER_SAMPLE * 2
\* 0.015, in thousandths
SILENCE_THRESHOLD == 15
\* 2.5 s, in tenths of a second
SILENCE_WINDOW_SEC == 25
SILENCE_CHUNKS_BEFORE_RESET == SILENCE_WINDOW_SEC \div SLIDE_DURATION_SEC
\* 0.2, in tenths
ENERGY_SMOOTHING_FACTOR == 2
\* the literal 0.3 of extract_new_text_with_timestamps, in tenths of a second
TOLERANCE == 3
\* the literal 1.0 of the pause trigger, in seconds
PAUSE_SEC == 1
\* the literal 0.38 of the overlap kept after a round, in hundredths
KEEP_PERCENT == 38
keep_bytes == (MAX_BUFFER_SIZE * KEEP_PERCENT) \div 100

ConnIds == {"c1"}

\* sizes of the frames a client sends: 1 s and 2 s of audio
FrameSizes == {SAMPLE_RATE * BYTES_PER_SAMPLE, 2 * SAMPLE_RATE * BYTES_PER_SAMPLE}
\* calculate_energy(data) of a frame: a quiet and a loud frame
FrameEnergies == {0, 80}

(***************************************************************************)
(* Texts and segments                                                      *)
(***************************************************************************)
\* A word is the sequence of its characters.
w_world == <<"w", "o", "r", "l", "d">>
w_today == <<"t", "o", "d", "a", "y">>
SegWords == {w_world, w_today}
\* segment.text of a segment: blank, or one word
SegTexts == {<<>>} \cup {<<w>> : w \in SegWords}
SegTimes == {0, 18, 25, 30}
Segs == {s \in [start : SegTimes, end : SegTimes, text : SegTexts] : s.start < s.end}

RECURSIVE Ordered(_)
Ordered(l) ==
    IF Len(l) <= 1 THEN TRUE
    ELSE l[1].end <= l[2].start /\ Ordered(Tail(l))

RECURSIVE SeqsUpTo(_, _)
SeqsUpTo(S, n) ==
    IF n = 0 THEN {<<>>}
    ELSE LET shorter == SeqsUpTo(S, n - 1)
         IN  shorter \cup {Append(q, x) : q \in {r \in shorter : Len(r) = n - 1}, x \in S}

\* what the engine can return for a pass: ordered segments, oldest first
SegLists == {l \in SeqsUpTo(Segs, MaxSegs) : Ordered(l)}

RECURSIVE JoinTexts(_)
JoinTexts(parts) ==
    IF parts = <<>> THEN <<>> ELSE Head(parts) \o JoinTexts(Tail(parts))

(***************************************************************************)
(* models.py: transcribe_audio_buffer_with_timestamps.  The engine's       *)
(* output for the pass (segments_list) is the input; the function builds   *)
(* (full_text, segments, end_time) from it.                                *)
(***************************************************************************)
transcribe_audio_buffer_with_timestamps(segments_list) ==
    IF segments_list = <<>>
    THEN [full_text |-> <<>>, segments |-> <<>>, end_time |-> 0]
    ELSE [full_text |-> JoinTexts([i \in 1..Len(segments_list) |-> segments_list[i].text]),
          segments  |-> segments_list,
          end_time  |-> segments_list[Len(segments_list)].end]

(***************************************************************************)
(* ws_manager.py: normalize_text_for_comparison                            *)
(***************************************************************************)
LowerLetters == <<"a", "b", "c", "d", "e", "f", "g", "h", "i", "j", "k", "l", "m", "n", "o", "p", "q", "r", "s", "t", "u", "v", "w", "x", "y", "z">>
UpperLetters == <<"A", "B", "C", "D", "E", "F", "G", "H", "I", "J", "K", "L", "M", "N", "O", "P", "Q", "R", "S", "T", "U", "V", "W", "X", "Y", "Z">>
DigitChars == <<"0", "1", "2", "3", "4", "5", "6", "7", "8", "9">>

Range(f) == {f[i] : i \in DOMAIN f}
IsDigit(ch) == ch \in Range(DigitChars)
\* the class \w of the regular expressions
IsWordChar(ch) == ch \in Range(LowerLetters) \cup Range(UpperLetters) \cup Range(DigitChars) \cup {"_"}
DigitVal(ch) == (CHOOSE i \in DOMAIN DigitChars : DigitChars[i] = ch) - 1
ToLower(ch) ==
    IF ch \in Range(UpperLetters)
    THEN LowerLetters[CHOOSE i \in DOMAIN UpperLetters : UpperLetters[i] = ch]
    ELSE ch

\* number_map: the words of '0' .. '20', at index value + 1
number_map ==
    <<<<"z", "e", "r", "o">>,
       <<"o", "n", "e">>,
       <<"t", "w", "o">>,
       <<"t", "h", "r", "e", "e">>,
       <<"f", "o", "u", "r">>,
       <<"f", "i", "v", "e">>,
       <<"s", "i", "x">>,
       <<"s", "e", "v", "e", "n">>,
       <<"e", "i", "g", "h", "t">>,
       <<"n", "i", "n", "e">>,
       <<"t", "e", "n">>,
       <<"e", "l", "e", "v", "e", "n">>,
       <<"t", "w", "e", "l", "v", "e">>,
       <<"t", "h", "i", "r", "t", "e", "e", "n">>,
       <<"f", "o", "u", "r", "t", "e", "e", "n">>,
       <<"f", "i", "f", "t", "e", "e", "n">>,
       <<"s", "i", "x", "t", "e", "e", "n">>,
       <<"s", "e", "v", "e", "n", "t", "e", "e", "n">>,
       <<"e", "i", "g", "h", "t", "e", "e", "n">>,
       <<"n", "i", "n", "e", "t", "e", "e", "n">>,
       <<"t", "w", "e", "n", "t", "y">>>>

\* replace_number on one maximal run of \w characters: \b(\d{1,2})\b matches the
\* run only if the whole run is one or two digits; number_map.get(num, num)
replace_number(run) ==
    IF run # <<>> /\ Len(run) <= 2 /\ \A i \in DOMAIN run : IsDigit(run[i])
    THEN IF Len(run) = 1
         THEN number_map[DigitVal(run[1]) + 1]
         ELSE LET v == 10 * DigitVal(run[1]) + DigitVal(run[2])
              IN  IF v >= 10 /\ v <= 20 THEN number_map[v + 1] ELSE run
    ELSE run

\* the characters of one word after the number substitution and the removal
\* of every character outside \w (run: the \w characters read so far)
RECURSIVE NormScan(_, _)
NormScan(w, run) ==
    IF w = <<>> THEN replace_number(run)
    ELSE IF IsWordChar(Head(w)) THEN NormScan(Tail(w), Append(run, Head(w)))
    ELSE replace_number(run) \o NormScan(Tail(w), <<>>)

NormWord(w) ==
    LET kept == NormScan(w, <<>>)
    IN  [i \in 1..Len(kept) |-> ToLower(kept[i])]

\* normalize_text_for_comparison(text).split(): the normalised words; a word
\* made of punctuation only disappears
RECURSIVE normalize_text_for_comparison(_)
normalize_text_for_comparison(text) ==
    IF text = <<>> THEN <<>>
    ELSE LET nw == NormWord(Head(text))
             rest == normalize_text_for_comparison(Tail(text))
         IN  IF nw = <<>> THEN rest ELSE <<nw>> \o rest

\* ' '.join(words) as a string of characters
RECURSIVE JoinChars(_)
JoinChars(words) ==
    IF words = <<>> THEN <<>>
    ELSE IF Len(words) = 1 THEN words[1]
    ELSE words[1] \o <<" ">> \o JoinChars(Tail(words))

\* a in b, on strings of characters
IsSubstring(a, b) ==
    \E i \in 0..(Len(b) - Len(a)) : SubSeq(b, i + 1, i + Len(a)) = a

\* text[-i:] and text[i:] of Python, on sequences (i >= 0)
LastN(q, i) == IF i >= Len(q) THEN q ELSE SubSeq(q, Len(q) - i + 1, Len(q))
DropN(q, i) == IF i >= Len(q) THEN <<>> ELSE SubSeq(q, i + 1, Len(q))

(***************************************************************************)
(* ws_manager.py: extract_new_text_with_timestamps                         *)
(***************************************************************************)
\* a reconciler that drops a segment starting exactly 0.3 s before the watermark
RECURSIVE extract_excluding_boundary(_, _)
extract_excluding_boundary(prev_end_time, segments) ==
    IF segments = <<>> THEN [new_text |-> <<>>, new_end_time |-> prev_end_time]
    ELSE LET n == Len(segments)
             segment == segments[n]
             before == extract_excluding_boundary(prev_end_time, SubSeq(segments, 1, n - 1))
         IN  IF segment.start > prev_end_time - TOLERANCE
             THEN [new_text |-> before.new_text \o segment.text,
                   new_end_time |-> Max(before.new_end_time, segment.end)]
             ELSE before

\* a reconciler that compares the end of a segment with the watermark
RECURSIVE extract_comparing_end(_, _)
extract_comparing_end(prev_end_time, segments) ==
    IF segments = <<>> THEN [new_text |-> <<>>, new_end_time |-> prev_end_time]
    ELSE LET n == Len(segments)
             segment == segments[n]
             before == extract_comparing_end(prev_end_time, SubSeq(segments, 1, n - 1))
         IN  IF segment.end >= prev_end_time - TOLERANCE
             THEN [new_text |-> before.new_text \o segment.text,
                   new_end_time |-> Max(before.new_end_time, segment.end)]
             ELSE before

RECURSIVE extract_new_text_with_timestamps(_, _)
extract_new_text_with_timestamps(prev_end_time, segments) ==
    IF segments = <<>> THEN [new_text |-> <<>>, new_end_time |-> prev_end_time]
    ELSE LET n == Len(segments)
             segment == segments[n]
             before == extract_new_text_with_timestamps(prev_end_time, SubSeq(segments, 1, n - 1))
         IN  IF segment.start >= prev_end_time - TOLERANCE
             THEN [new_text |-> before.new_text \o segment.text,
                   new_end_time |-> Max(before.new_end_time, segment.end)]
             ELSE before

(***************************************************************************)
(* ws_manager.py: extract_new_text_fallback                                *)
(***************************************************************************)
\* a short-circuit that asks for at most half of the previous word count
FallbackContainedHalf(prev_words, new_words) ==
    /\ 2 * Len(new_words) <= Len(prev_words)
    /\ IsSubstring(JoinChars(new_words), JoinChars(prev_words))

\* lines 119-124: the containment short-circuit
FallbackContained(prev_words, new_words) ==
    /\ 10 * Len(new_words) <= 8 * Len(prev_words)
    /\ IsSubstring(JoinChars(new_words), JoinChars(prev_words))

\* lines 127-134: the largest i in 1..max_check with prev_words[-i:] = new_words[:i]
\* (0 when there is none)
BestOverlapLen(prev_words, new_words) ==
    LET max_check == Min(20, Min(Len(prev_words), Len(new_words)))
        hits == {i \in 1..max_check : LastN(prev_words, i) = SubSeq(new_words, 1, i)}
    IN  IF hits = {} THEN 0 ELSE CHOOSE i \in hits : \A j \in hits : j <= i

\* line 133: best_overlap_end for an overlap of i words
BestOverlapEnd(new_words, i) == Len(new_words) - i

\* a boundary check that also accepts an alignment of two words
BoundaryOverlapFromTwo(prev_words, new_words) ==
    IF Len(prev_words) >= 5 /\ Len(new_words) >= 5
    THEN LET hits == {k \in 2..5 : LastN(prev_words, k) = SubSeq(new_words, 1, k)}
         IN  IF hits = {} THEN 0 ELSE CHOOSE k \in hits : \A j \in hits : j <= k
    ELSE 0

\* lines 142-145: the 5 -> 3 word boundary check; 0 when it finds nothing
BoundaryOverlap(prev_words, new_words) ==
    IF Len(prev_words) >= 5 /\ Len(new_words) >= 5
    THEN LET hits == {k \in 3..5 : LastN(prev_words, k) = SubSeq(new_words, 1, k)}
         IN  IF hits = {} THEN 0 ELSE CHOOSE k \in hits : \A j \in hits : j <= k
    ELSE 0

\* a fallback reconciler that takes an overlap of two words as significant
extract_with_two_word_overlap(prev_text, new_text) ==
    IF prev_text = <<>> \/ new_text = <<>> THEN new_text
    ELSE LET prev_words == normalize_text_for_comparison(prev_text)
             new_words == normalize_text_for_comparison(new_text)
             original_new_words == new_text
             best_overlap_len == BestOverlapLen(prev_words, new_words)
             best_overlap_end == BestOverlapEnd(new_words, best_overlap_len)
             overlap_size == BoundaryOverlap(prev_words, new_words)
         IN  IF FallbackContained(prev_words, new_words) THEN <<>>
             ELSE IF best_overlap_len >= 2 THEN DropN(original_new_words, best_overlap_end)
             ELSE IF overlap_size > 0 THEN DropN(original_new_words, overlap_size)
             ELSE new_text

extract_new_text_fallback(prev_text, new_text) ==
    IF prev_text = <<>> \/ new_text = <<>> THEN new_text
    ELSE LET prev_words == normalize_text_for_comparison(prev_text)
             new_words == normalize_text_for_comparison(new_text)
             original_new_words == new_text
             best_overlap_len == BestOverlapLen(prev_words, new_words)
             best_overlap_end == BestOverlapEnd(new_words, best_overlap_len)
             overlap_size == BoundaryOverlap(prev_words, new_words)
         IN  IF FallbackContained(prev_words, new_words) THEN <<>>
             ELSE IF best_overlap_len >= 3 THEN DropN(original_new_words, best_overlap_end)
             ELSE IF overlap_size > 0 THEN DropN(original_new_words, overlap_size)
             ELSE new_text

\* the line of the return statement extract_new_text_fallback leaves by
fallback_return_line(prev_text, new_text) ==
    IF prev_text = <<>> \/ new_text = <<>> THEN 108
    ELSE LET prev_words == normalize_text_for_comparison(prev_text)
             new_words == normalize_text_for_comparison(new_text)
         IN  IF FallbackContained(prev_words, new_words) THEN 124
             ELSE IF BestOverlapLen(prev_words, new_words) >= 3 THEN 138
             ELSE IF BoundaryOverlap(prev_words, new_words) > 0 THEN 145
             ELSE 148

(***************************************************************************)
(* ws_manager.py: AudioState and handle_audio_stream                       *)
(***************************************************************************)
NoMsg == [type |-> "none"]

\* AudioState.__init__
AudioState ==
    [buffer |-> 0, smoothed_energy |-> 0, silence_counter |-> 0,
     last_end_time |-> 0, last_full_text |-> <<>>, is_speaking |-> FALSE,
     last_process_time |-> 0, speech_end_time |-> 0]

NoObs ==
    [kind |-> "none", len_after_append |-> 0, pause_ready |-> FALSE,
     silence_count |-> 0, prev_end_time |-> 0, transcribed |-> FALSE,
     raised |-> FALSE, result |-> <<>>, delta |-> <<>>, sent |-> NoMsg,
     kept |-> [from |-> 0, to |-> 0], handed |-> [from |-> 0, to |-> 0]]

\* lines 177-180: the exponentially smoothed energy
SmoothedEnergy(current_energy, previous) ==
    (ENERGY_SMOOTHING_FACTOR * current_energy
        + (10 - ENERGY_SMOOTHING_FACTOR) * previous) \div 10

\* a reset that forgets to clear the watermark and the last text
HardResetKeepsContext(st) ==
    [st EXCEPT !.buffer = 0, !.silence_counter = 0, !.speech_end_time = 0]

\* a hard reset that leaves the silence counter as it is
HardResetKeepsCounter(st) ==
    [st EXCEPT !.buffer = 0, !.last_end_time = 0,
               !.last_full_text = <<>>, !.speech_end_time = 0]

\* lines 199-203: the long-silence reset
HardReset(st) ==
    [st EXCEPT !.buffer = 0, !.silence_counter = 0, !.last_end_time = 0,
               !.last_full_text = <<>>, !.speech_end_time = 0]

\* a silence frame that discards the audio buffered so far
SilenceFrameClearsBuffer(st, current_time) ==
    LET marked == IF st.is_speaking
                  THEN [st EXCEPT !.speech_end_time = current_time, !.is_speaking = FALSE]
                  ELSE st
        counted == [marked EXCEPT !.silence_counter = @ + 1, !.buffer = 0]
    IN  IF counted.silence_counter > SILENCE_CHUNKS_BEFORE_RESET * 2
        THEN HardReset(counted)
        ELSE counted

\* a silence frame that stamps the speech end on every silence frame
SilenceFrameRestamps(st, current_time) ==
    LET marked == [st EXCEPT !.speech_end_time = current_time, !.is_speaking = FALSE]
        counted == [marked EXCEPT !.silence_counter = @ + 1]
    IN  IF counted.silence_counter > SILENCE_CHUNKS_BEFORE_RESET * 2
        THEN HardReset(counted)
        ELSE counted

\* a voice frame that keeps the recorded speech end
VoiceFrameKeepsSpeechEnd(st) ==
    [st EXCEPT !.silence_counter = 0, !.is_speaking = TRUE]

\* lines 186-204: a frame classified as silence
SilenceFrame(st, current_time) ==
    LET marked == IF st.is_speaking
                  THEN [st EXCEPT !.speech_end_time = current_time, !.is_speaking = FALSE]
                  ELSE st
        counted == [marked EXCEPT !.silence_counter = @ + 1]
    IN  IF counted.silence_counter > SILENCE_CHUNKS_BEFORE_RESET * 2
        THEN HardReset(counted)
        ELSE counted

\* lines 207-209: a frame classified as voice
VoiceFrame(st) ==
    [st EXCEPT !.silence_counter = 0, !.is_speaking = TRUE, !.speech_end_time = 0]

\* a trigger that fires as soon as the minimum amount of audio is buffered
ShouldProcessAtMinimum(st, current_time) ==
    st.buffer >= MIN_BUFFER_SIZE

\* lines 214-227: should_process
ShouldProcess(st, current_time) ==
    \/ st.buffer >= MAX_BUFFER_SIZE
    \/ /\ st.buffer >= MIN_BUFFER_SIZE
       /\ st.speech_end_time > 0
       /\ current_time - st.speech_end_time >= PAUSE_SEC

SliceLen(slice) == slice.to - slice.from

\* a hand-off of the leading bytes of the buffer
ProcessSliceLeading(buffer) == [from |-> 0, to |-> Min(buffer, MAX_BUFFER_SIZE)]

\* line 231: state.buffer[-MAX_BUFFER_SIZE:], as the positions from
\* (exclusive) .. to (inclusive) of the buffer handed to the transcriber
ProcessSlice(buffer) == [from |-> Max(buffer - MAX_BUFFER_SIZE, 0), to |-> buffer]

\* a slice that keeps the leading bytes of the buffer
KeepSliceLeading(buffer) ==
    IF keep_bytes > 0 THEN [from |-> 0, to |-> Min(buffer, keep_bytes)]
    ELSE [from |-> 0, to |-> 0]

\* line 272: state.buffer[-keep_bytes:] if keep_bytes > 0 else bytearray(),
\* as the positions from (exclusive) .. to (inclusive) of the buffer it keeps
KeepSlice(buffer) ==
    IF keep_bytes > 0 THEN [from |-> Max(buffer - keep_bytes, 0), to |-> buffer]
    ELSE [from |-> 0, to |-> 0]

\* lines 271-272: the overlap kept after a round
KeepOverlap(buffer) == LET kept == KeepSlice(buffer) IN kept.to - kept.from

\* lines 240-260: the reconciler state after a result, and the delta
Reconcile(st, result) ==
    IF result.segments # <<>>
    THEN [st |-> [st EXCEPT !.last_end_time = result.end_time,
                            !.last_full_text = result.full_text],
          new_portion |-> extract_new_text_with_timestamps(st.last_end_time,
                                                            result.segments).new_text]
    ELSE [st |-> [st EXCEPT !.last_full_text = result.full_text],
          new_portion |-> extract_new_text_fallback(st.last_full_text, result.full_text)]

\* a handler that keeps one AudioState for all connections
AcceptSharedState(c) ==
    /\ hpc[c] = "new"
    /\ hpc' = [hpc EXCEPT ![c] = "recv"]
    /\ state' = [d \in DOMAIN state |-> AudioState]
    /\ UNCHANGED <<clock, process_chunk, obs, ingestVars, fbVars, tsVars>>

\* lines 165-167: websocket.accept(), state = AudioState()
Accept(c) ==
    /\ hpc[c] = "new"
    /\ hpc' = [hpc EXCEPT ![c] = "recv"]
    /\ state' = [state EXCEPT ![c] = AudioState]
    /\ UNCHANGED <<clock, process_chunk, obs, ingestVars, fbVars, tsVars>>

\* a handler whose transcription call blocks the event loop: no frame is
\* received while any connection waits for its transcription
ReceiveFrameOnBlockedLoop(c, size, current_energy) ==
    /\ \A d \in DOMAIN hpc : hpc[d] # "transcribing"
    /\ hpc[c] = "recv"
    /\ LET current_time == clock
           st0 == state[c]
           st1 == [st0 EXCEPT !.smoothed_energy = SmoothedEnergy(current_energy, @),
                              !.buffer = @ + size]
           silent == st1.smoothed_energy < SILENCE_THRESHOLD
           ob == [NoObs EXCEPT
                    !.kind = IF silent THEN "silence" ELSE "speech",
                    !.len_after_append = st1.buffer,
                    !.pause_ready = /\ st1.buffer >= MIN_BUFFER_SIZE
                                    /\ st0.speech_end_time > 0
                                    /\ current_time - st0.speech_end_time >= PAUSE_SEC,
                    !.prev_end_time = st0.last_end_time]
       IN  IF silent
           THEN /\ state' = [state EXCEPT ![c] = SilenceFrame(st1, current_time)]
                /\ obs' = [obs EXCEPT ![c] = [ob EXCEPT !.silence_count = st1.silence_counter + 1]]
                /\ UNCHANGED <<hpc, process_chunk>>
           ELSE LET st2 == VoiceFrame(st1)
                IN  /\ state' = [state EXCEPT ![c] = st2]
                    /\ IF ShouldProcess(st2, current_time)
                       THEN /\ hpc' = [hpc EXCEPT ![c] = "transcribing"]
                            /\ process_chunk' = [process_chunk EXCEPT ![c] = SliceLen(ProcessSlice(st2.buffer))]
                            /\ obs' = [obs EXCEPT ![c] = [ob EXCEPT !.transcribed = TRUE,
                                                                   !.handed = ProcessSlice(st2.buffer)]]
                       ELSE /\ obs' = [obs EXCEPT ![c] = ob]
                            /\ UNCHANGED <<hpc, process_chunk>>
    /\ UNCHANGED <<clock, ingestVars, fbVars, tsVars>>

\* lines 172-238: one frame, up to the hand-off to the transcriber
ReceiveFrame(c, size, current_energy) ==
    /\ hpc[c] = "recv"
    /\ LET current_time == clock
           st0 == state[c]
           st1 == [st0 EXCEPT !.smoothed_energy = SmoothedEnergy(current_energy, @),
                              !.buffer = @ + size]
           silent == st1.smoothed_energy < SILENCE_THRESHOLD
           ob == [NoObs EXCEPT
                    !.kind = IF silent THEN "silence" ELSE "speech",
                    !.len_after_append = st1.buffer,
                    !.pause_ready = /\ st1.buffer >= MIN_BUFFER_SIZE
                                    /\ st0.speech_end_time > 0
                                    /\ current_time - st0.speech_end_time >= PAUSE_SEC,
                    !.prev_end_time = st0.last_end_time]
       IN  IF silent
           THEN /\ state' = [state EXCEPT ![c] = SilenceFrame(st1, current_time)]
                /\ obs' = [obs EXCEPT ![c] = [ob EXCEPT !.silence_count = st1.silence_counter + 1]]
                /\ UNCHANGED <<hpc, process_chunk>>
           ELSE LET st2 == VoiceFrame(st1)
                IN  /\ state' = [state EXCEPT ![c] = st2]
                    /\ IF ShouldProcess(st2, current_time)
                       THEN /\ hpc' = [hpc EXCEPT ![c] = "transcribing"]
                            /\ process_chunk' = [process_chunk EXCEPT ![c] = SliceLen(ProcessSlice(st2.buffer))]
                            /\ obs' = [obs EXCEPT ![c] = [ob EXCEPT !.transcribed = TRUE,
                                                                   !.handed = ProcessSlice(st2.buffer)]]
                       ELSE /\ obs' = [obs EXCEPT ![c] = ob]
                            /\ UNCHANGED <<hpc, process_chunk>>
    /\ UNCHANGED <<clock, ingestVars, fbVars, tsVars>>

\* a round that sends its delta without testing it for emptiness
TranscribeReturnAlwaysSends(c, segments_list) ==
    /\ hpc[c] = "transcribing"
    /\ LET result == transcribe_audio_buffer_with_timestamps(segments_list)
           rec == Reconcile(state[c], result)
           msg == [type |-> "result", text |-> rec.new_portion]
       IN  /\ state' = [state EXCEPT ![c] = [rec.st EXCEPT !.buffer = KeepOverlap(@)]]
           /\ obs' = [obs EXCEPT ![c] = [@ EXCEPT !.result = segments_list,
                                                  !.delta = rec.new_portion,
                                                  !.sent = msg,
                                                  !.kept = KeepSlice(rec.st.buffer)]]
    /\ hpc' = [hpc EXCEPT ![c] = "recv"]
    /\ process_chunk' = [process_chunk EXCEPT ![c] = 0]
    /\ UNCHANGED <<clock, ingestVars, fbVars, tsVars>>

\* lines 240-272: the transcriber returned; reconcile, send, keep the overlap
TranscribeReturn(c, segments_list) ==
    /\ hpc[c] = "transcribing"
    /\ LET result == transcribe_audio_buffer_with_timestamps(segments_list)
           rec == Reconcile(state[c], result)
           msg == IF rec.new_portion # <<>>
                  THEN [type |-> "result", text |-> rec.new_portion]
                  ELSE NoMsg
       IN  /\ state' = [state EXCEPT ![c] = [rec.st EXCEPT !.buffer = KeepOverlap(@)]]
           /\ obs' = [obs EXCEPT ![c] = [@ EXCEPT !.result = segments_list,
                                                  !.delta = rec.new_portion,
                                                  !.sent = msg,
                                                  !.kept = KeepSlice(rec.st.buffer)]]
    /\ hpc' = [hpc EXCEPT ![c] = "recv"]
    /\ process_chunk' = [process_chunk EXCEPT ![c] = 0]
    /\ UNCHANGED <<clock, ingestVars, fbVars, tsVars>>

\* lines 234-238 raising: the exception leaves the while loop and is caught at
\* line 274, after which the handler returns
TranscribeRaise(c) ==
    /\ hpc[c] = "transcribing"
    /\ hpc' = [hpc EXCEPT ![c] = "closed"]
    /\ obs' = [obs EXCEPT ![c] = [@ EXCEPT !.raised = TRUE]]
    /\ process_chunk' = [process_chunk EXCEPT ![c] = 0]
    /\ UNCHANGED <<clock, state, ingestVars, fbVars, tsVars>>

\* line 172 raising (the client went away): caught at line 274
Disconnect(c) ==
    /\ hpc[c] = "recv"
    /\ hpc' = [hpc EXCEPT ![c] = "closed"]
    /\ UNCHANGED <<clock, state, process_chunk, obs, ingestVars, fbVars, tsVars>>

\* time passes
Tick ==
    /\ clock < MaxClock
    /\ clock' = clock + 1
    /\ UNCHANGED <<streamVars, ingestVars, fbVars, tsVars>>

(***************************************************************************)
(* ingestion_buffer.py: ContextChunk and IngestionBuffer                   *)
(***************************************************************************)
\* IngestionBuffer(batch_duration_sec=10.0), line 150
batch_duration_sec == 10
\* str(uuid.uuid4()), fixed for the buffer's lifetime
session_id == "session"

Callers == {"t1", "t2"}
Free == "free"
NoChunk == [kind |-> "none"]

w_slide == <<"s", "l", "i", "d", "e">>
\* the fragments callers append
TranscriptFrags == {<<w_world>>, <<w_today>>}
FrameFrags == {<<w_slide>>}

NoLocals == [op |-> "none", origin |-> "none", arg |-> <<>>, current_time |-> 0, chunk |-> NoChunk]

\* lines 81-85: ContextChunk(start_time=current_time, ...)
ContextChunk(current_time) ==
    [kind |-> "chunk", start_time |-> current_time,
     end_time |-> current_time + batch_duration_sec,
     transcripts |-> <<>>, frame_descriptions |-> <<>>, session_id |-> session_id]

\* lines 28-40: ContextChunk.get_combined_text, as the sequence of its lines
get_combined_text(chunk) ==
    (IF chunk.frame_descriptions # <<>>
     THEN << <<<<"V", "i", "s", "u", "a", "l">>, <<"C", "o", "n", "t", "e", "x", "t", ":">>>>, JoinTexts(chunk.frame_descriptions) >>
     ELSE <<>>)
    \o
    (IF chunk.transcripts # <<>>
     THEN << <<<<"A", "u", "d", "i", "o">>, <<"T", "r", "a", "n", "s", "c", "r", "i", "p", "t", ":">>>>, JoinTexts(chunk.transcripts) >>
     ELSE <<>>)

\* lines 116-137: the document handed to collection.add
Document(chunk) ==
    [document |-> get_combined_text(chunk),
     id |-> <<"chunk_", chunk.start_time>>,
     metadata |-> [start_time |-> chunk.start_time, end_time |-> chunk.end_time,
                   session_id |-> chunk.session_id, content_type |-> "mixed",
                   transcript_count |-> Len(chunk.transcripts),
                   frame_count |-> Len(chunk.frame_descriptions),
                   duration_sec |-> chunk.end_time - chunk.start_time]]

\* threading.Lock.acquire: the lock is not reentrant, whoever holds it
CanAcquire(t) == lock = Free

\* lines 71-75: stop()
StopBuffer ==
    /\ is_running' = FALSE
    /\ batch_task' = IF batch_task = "scheduled" THEN "cancelled" ELSE batch_task

\* a method returned to its caller: stop_ingestion_service goes on to stop()
\* (lines 165-166), start_ingestion_service creates the periodic task (156-158)
ReturnTo(t) ==
    /\ tpc' = [tpc EXCEPT ![t] = "idle"]
    /\ tloc' = [tloc EXCEPT ![t] = NoLocals]
    /\ IF tloc[t].origin = "shutdown" THEN StopBuffer
       ELSE IF tloc[t].op = "start" THEN batch_task' = "scheduled" /\ UNCHANGED is_running
       ELSE UNCHANGED <<is_running, batch_task>>

\* lines 111-140, on the detached chunk: skip an empty batch, else build the
\* document and add it to the collection; a failing add is caught and logged
EmbedDetached(t, add_ok) ==
    LET chunk == tloc[t].chunk
    IN  /\ stored' = IF chunk.transcripts = <<>> /\ chunk.frame_descriptions = <<>>
                     THEN stored
                     ELSE IF add_ok THEN Append(stored, Document(chunk)) ELSE stored
        /\ ReturnTo(t)

\* start_ingestion_service, lines 153-158, with start(), lines 63-69
StartService(t) ==
    /\ tpc[t] = "idle"
    /\ IF is_running
       THEN /\ batch_task' = "scheduled"
            /\ UNCHANGED <<is_running, tpc, tloc>>
       ELSE /\ is_running' = TRUE
            /\ tpc' = [tpc EXCEPT ![t] = "new_chunk"]
            /\ tloc' = [tloc EXCEPT ![t] = [NoLocals EXCEPT !.op = "start"]]
            /\ UNCHANGED batch_task
    /\ UNCHANGED <<clock, current_chunk, lock, stored, streamVars, fbVars, tsVars>>

\* add_to_buffer -> add_transcript / add_frame_description, lines 87-90 and
\* 95-98: the unlocked test of current_chunk
BeginAdd(t, op, text) ==
    /\ tpc[t] = "idle"
    /\ current_chunk # NoChunk =>
          Len(IF op = "add_transcript" THEN current_chunk.transcripts
              ELSE current_chunk.frame_descriptions) < MaxFrags
    /\ tloc' = [tloc EXCEPT ![t] = [NoLocals EXCEPT !.op = op, !.arg = text]]
    /\ tpc' = [tpc EXCEPT ![t] = IF current_chunk = NoChunk THEN "new_chunk" ELSE "append"]
    /\ UNCHANGED <<clock, current_chunk, lock, is_running, batch_task, stored, streamVars, fbVars, tsVars>>

\* lines 92-93 and 100-101: with self._lock: append
AppendLocked(t) ==
    /\ tpc[t] = "append"
    /\ CanAcquire(t)
    /\ current_chunk' =
          IF tloc[t].op = "add_transcript"
          THEN [current_chunk EXCEPT !.transcripts = Append(@, tloc[t].arg)]
          ELSE [current_chunk EXCEPT !.frame_descriptions = Append(@, tloc[t].arg)]
    /\ ReturnTo(t)
    /\ UNCHANGED <<clock, lock, stored, streamVars, fbVars, tsVars>>

\* a call of process_current_batch: by the periodic task (lines 144-146), the
\* manual flush endpoint (main.py 496-504) or stop_ingestion_service (line 165)
BeginFlush(t, origin) ==
    /\ tpc[t] = "idle"
    /\ origin = "periodic" => is_running /\ batch_task = "scheduled"
    /\ tloc' = [tloc EXCEPT ![t] = [NoLocals EXCEPT !.op = "flush", !.origin = origin]]
    /\ tpc' = [tpc EXCEPT ![t] = "flush_lock"]
    /\ UNCHANGED <<clock, current_chunk, lock, is_running, batch_task, stored, streamVars, fbVars, tsVars>>

\* lines 105-110: with self._lock: return if there is no chunk, else detach
\* it and call _start_new_chunk with the lock held
FlushLocked(t) ==
    /\ tpc[t] = "flush_lock"
    /\ CanAcquire(t)
    /\ IF current_chunk = NoChunk
       THEN /\ ReturnTo(t)
            /\ UNCHANGED lock
       ELSE /\ lock' = t
            /\ tloc' = [tloc EXCEPT ![t].chunk = current_chunk]
            /\ tpc' = [tpc EXCEPT ![t] = "new_chunk"]
            /\ UNCHANGED <<is_running, batch_task>>
    /\ UNCHANGED <<clock, current_chunk, stored, streamVars, fbVars, tsVars>>

\* line 79: current_time = time.time()
NewChunkTime(t) ==
    /\ tpc[t] = "new_chunk"
    /\ tloc' = [tloc EXCEPT ![t].current_time = clock]
    /\ tpc' = [tpc EXCEPT ![t] = "new_chunk_lock"]
    /\ UNCHANGED <<clock, current_chunk, lock, is_running, batch_task, stored, streamVars, fbVars, tsVars>>

\* lines 80-85: with self._lock: install the new chunk; then back in the
\* caller: an append goes on to its locked append, start() returns, and
\* process_current_batch leaves its own with block and embeds the detached
\* chunk (lines 111-140)
NewChunkSet(t, add_ok) ==
    /\ tpc[t] = "new_chunk_lock"
    /\ CanAcquire(t)
    /\ current_chunk' = ContextChunk(tloc[t].current_time)
    /\ lock' = Free
    /\ IF tloc[t].op = "flush"
       THEN EmbedDetached(t, add_ok)
       ELSE IF tloc[t].op = "start"
       THEN ReturnTo(t) /\ UNCHANGED stored
       ELSE /\ tpc' = [tpc EXCEPT ![t] = "append"]
            /\ UNCHANGED <<tloc, is_running, batch_task, stored>>
    /\ UNCHANGED <<clock, streamVars, fbVars, tsVars>>

(***************************************************************************)
(* extract_new_text_fallback applied to drawn inputs                       *)
(***************************************************************************)
w_the == <<"t", "h", "e">>
w_five == <<"f", "i", "v", "e">>
w_dogs == <<"d", "o", "g", "s">>
w_ran == <<"r", "a", "n">>
w_fast == <<"f", "a", "s", "t">>
w_and == <<"a", "n", "d">>
w_jumped == <<"j", "u", "m", "p", "e", "d">>
w_one == <<"o", "n", "e">>
w_two == <<"t", "w", "o">>
w_three == <<"t", "h", "r", "e", "e">>
w_four == <<"f", "o", "u", "r">>
w_5 == <<"5">>
w_i == <<"i">>
w_dash == <<"-">>

\* the words the drawn texts are made of: a numeral and its word, a word
\* that is a substring of another, and a word of punctuation only
FbWords == {w_5, w_five, w_i, w_dash}
\* the pairs (previous text, new text) of the specification's examples
FbExamples ==
    { << <<w_the, w_five, w_dogs, w_ran, w_fast>>, <<w_five, w_dogs, w_ran, w_fast, w_and, w_jumped>> >>,
      << <<w_one, w_two, w_three, w_four, w_five>>, <<w_two, w_three>> >> }
\* texts long enough for the boundary check (at least 5 words on both sides)
FbLongTexts ==
    [1..LongWords -> {w_one, w_two}] \cup [1..(LongWords + 1) -> {w_one, w_two}]
FbInputs ==
    (SeqsUpTo(FbWords, MaxPrevWords) \X SeqsUpTo(FbWords, MaxNewWords))
        \cup FbExamples \cup (FbLongTexts \X FbLongTexts)

ApplyFallback ==
    /\ fb_pc = "in"
    /\ fb_out' = extract_new_text_fallback(fb_prev, fb_new)
    /\ fb_pc' = "out"
    /\ UNCHANGED <<fb_prev, fb_new, clock, streamVars, ingestVars, tsVars>>

\* previous watermarks, in tenths of a second: the segment times, the
\* specification's example (2.0 s) and values 0.3 s after a segment start
TsPrevs == SegTimes \cup {20, 21, 28}

ApplyTimestamps ==
    /\ ts_pc = "in"
    /\ ts_out' = extract_new_text_with_timestamps(ts_prev, ts_segs)
    /\ ts_pc' = "out"
    /\ UNCHANGED <<ts_prev, ts_segs, clock, streamVars, ingestVars, fbVars>>

(***************************************************************************)
(* Initial states and specifications                                       *)
(***************************************************************************)
InitStream ==
    /\ state = [c \in ConnIds |-> AudioState]
    /\ hpc = [c \in ConnIds |-> "new"]
    /\ process_chunk = [c \in ConnIds |-> 0]
    /\ obs = [c \in ConnIds |-> NoObs]

\* IngestionBuffer.__init__, lines 55-61
InitIngest ==
    /\ current_chunk = NoChunk
    /\ lock = Free
    /\ is_running = FALSE
    /\ batch_task = "none"
    /\ tpc = [t \in Callers |-> "idle"]
    /\ tloc = [t \in Callers |-> NoLocals]
    /\ stored = <<>>

InitFbIdle ==
    /\ fb_pc = "idle"
    /\ fb_prev = <<>>
    /\ fb_new = <<>>
    /\ fb_out = <<>>

NoTsOut == [new_text |-> <<>>, new_end_time |-> 0]

InitTsIdle ==
    /\ ts_pc = "idle"
    /\ ts_prev = 0
    /\ ts_segs = <<>>
    /\ ts_out = NoTsOut

Init ==
    /\ clock = 1
    /\ InitStream
    /\ InitIngest
    /\ InitFbIdle
    /\ InitTsIdle

\* the audio handler of a connection, with the aggregation buffer beside it
Next ==
    \/ \E c \in ConnIds : Accept(c)
    \/ \E c \in ConnIds, size \in FrameSizes, e \in FrameEnergies : ReceiveFrame(c, size, e)
    \/ \E c \in ConnIds, l \in SegLists : TranscribeReturn(c, l)
    \/ \E c \in ConnIds : TranscribeRaise(c)
    \/ \E c \in ConnIds : Disconnect(c)
    \/ Tick

Spec == Init /\ [][Next]_vars

\* two connections served by the same event loop (main.py 489-491 starts one
\* handle_audio_stream per websocket)
ConnPair == {"c1", "c2"}
PairSizes == {MIN_BUFFER_SIZE}
PairEnergies == {0, 80}
PairSegLists == {<<>>, << [start |-> 0, end |-> 18, text |-> <<w_world>>] >>}

InitPair ==
    /\ clock = 1
    /\ state = [c \in ConnPair |-> AudioState]
    /\ hpc = [c \in ConnPair |-> "new"]
    /\ process_chunk = [c \in ConnPair |-> 0]
    /\ obs = [c \in ConnPair |-> NoObs]
    /\ InitIngest
    /\ InitFbIdle
    /\ InitTsIdle

NextPair ==
    \/ \E c \in ConnPair : Accept(c)
    \/ \E c \in ConnPair, size \in PairSizes, e \in PairEnergies : ReceiveFrame(c, size, e)
    \/ \E c \in ConnPair, l \in PairSegLists : TranscribeReturn(c, l)
    \/ \E c \in ConnPair : TranscribeRaise(c)
    \/ \E c \in ConnPair : Disconnect(c)

PairSpec == InitPair /\ [][NextPair]_vars

\* the steps a caller takes inside the buffer's methods once it has called one
CallerStep(t) ==
    \/ AppendLocked(t)
    \/ FlushLocked(t)
    \/ NewChunkTime(t)
    \/ \E add_ok \in BOOLEAN : NewChunkSet(t, add_ok)

\* the aggregation buffer and its callers
NextIngest ==
    \/ \E t \in Callers : StartService(t)
    \/ \E t \in Callers, x \in TranscriptFrags : BeginAdd(t, "add_transcript", x)
    \/ \E t \in Callers, x \in FrameFrags : BeginAdd(t, "add_frame_description", x)
    \/ \E t \in Callers, o \in {"periodic", "manual", "shutdown"} : BeginFlush(t, o)
    \/ \E t \in Callers : CallerStep(t)
    \/ Tick

IngestSpec == Init /\ [][NextIngest]_vars

\* a caller that can take its next step eventually takes it
FairIngestSpec == Init /\ [][NextIngest]_vars /\ \A t \in Callers : WF_vars(CallerStep(t))

\* run_batch_loop, lines 142-146: while the service runs, the periodic task
\* calls process_current_batch again and again
PeriodicFlush == \E t \in Callers : BeginFlush(t, "periodic")

FairPeriodicSpec ==
    /\ Init
    /\ [][NextIngest]_vars
    /\ \A t \in Callers : WF_vars(CallerStep(t))
    /\ WF_vars(PeriodicFlush)

InitFallback ==
    /\ clock = 1
    /\ InitStream
    /\ InitIngest
    /\ fb_pc = "in"
    /\ fb_out = <<>>
    /\ \E p \in FbInputs : fb_prev = p[1] /\ fb_new = p[2]
    /\ InitTsIdle

NextFallback == ApplyFallback

FallbackSpec == InitFallback /\ [][NextFallback]_vars

InitTimestamps ==
    /\ clock = 1
    /\ InitStream
    /\ InitIngest
    /\ InitFbIdle
    /\ ts_pc = "in"
    /\ ts_prev \in TsPrevs
    /\ ts_segs \in SegLists
    /\ ts_out = NoTsOut

NextTimestamps == ApplyTimestamps

TimestampSpec == InitTimestamps /\ [][NextTimestamps]_vars

(***************************************************************************)
(* Properties                                                              *)
(***************************************************************************)
\* a caller is inside process_current_batch
InFlush(t) == tloc[t].op = "flush" /\ tpc[t] # "idle"

\* C1: a flush made while a current chunk exists takes the lock, swaps the
\* chunk, releases the lock and returns, so it never blocks forever: a caller
\* inside process_current_batch can always take its next step, unless some
\* other caller holds the lock at that moment.
FlushNeverBlocksForever ==
    \A t \in Callers :
        InFlush(t) => (ENABLED CallerStep(t)) \/ lock \notin {Free, t}

\* the chunk holds exactly one transcript and one frame description
HoldsBoth(chunk, x, y) ==
    /\ chunk # NoChunk
    /\ chunk.transcripts = <<x>>
    /\ chunk.frame_descriptions = <<y>>

\* the words of text appear, in order and adjacent, in a line of the document
DocumentContains(doc, text) ==
    \E i \in DOMAIN doc.document :
        \E a \in 1..Len(doc.document[i]) :
            SubSeq(doc.document[i], a, a + Len(text) - 1) = text

\* C2: after one transcript and one frame description were appended, a call
\* of flush leads to one stored document whose text contains both, with a new
\* empty current chunk in place.
FlushStoresBothFragments ==
    \A x \in TranscriptFrags, y \in FrameFrags :
        (/\ \E t \in Callers : InFlush(t)
         /\ HoldsBoth(current_chunk, x, y)
         /\ stored = <<>>)
        ~> (/\ Len(stored) = 1
            /\ DocumentContains(stored[1], x)
            /\ DocumentContains(stored[1], y)
            /\ current_chunk # NoChunk
            /\ current_chunk.transcripts = <<>>
            /\ current_chunk.frame_descriptions = <<>>)

\* C3: a frame received when the buffer (with the frame) holds at least
\* MIN_BUFFER_SIZE bytes, a speech end was recorded and at least 1.0 s has
\* passed since, makes the handler invoke transcription for that frame.
PauseTriggerInvokesTranscription ==
    \A c \in ConnIds : obs[c].pause_ready => obs[c].transcribed

\* C4: when the containment short-circuit does not apply and the longest
\* suffix of the previous normalised words that is a prefix of the new
\* normalised words has k >= 3 words, the delta is the original new text
\* without its first k words.
FallbackEmitsWordsAfterOverlap ==
    fb_pc = "out" =>
        LET prev_words == normalize_text_for_comparison(fb_prev)
            new_words == normalize_text_for_comparison(fb_new)
            k == BestOverlapLen(prev_words, new_words)
        IN  (/\ fb_prev # <<>>
             /\ fb_new # <<>>
             /\ ~FallbackContained(prev_words, new_words)
             /\ k >= 3)
            => fb_out = DropN(fb_new, k)

\* the step handles a frame with the long-silence hard reset
IsHardReset(c) ==
    /\ obs'[c] # obs[c]
    /\ obs'[c].kind = "silence"
    /\ obs'[c].silence_count > SILENCE_CHUNKS_BEFORE_RESET * 2

\* C5: except at a long-silence hard reset, no step of a connection lowers
\* its watermark last_end_time.
WatermarkNeverDecreases ==
    [][\A c \in ConnIds :
          IsHardReset(c) \/ state'[c].last_end_time >= state[c].last_end_time]_vars

\* the transcript fragments the aggregation buffer holds or has stored
IsBuffered(text) ==
    \/ /\ current_chunk # NoChunk
       /\ \E i \in DOMAIN current_chunk.transcripts : current_chunk.transcripts[i] = text
    \/ \E t \in Callers :
          /\ tloc[t].chunk # NoChunk
          /\ \E i \in DOMAIN tloc[t].chunk.transcripts : tloc[t].chunk.transcripts[i] = text
    \/ \E i \in DOMAIN stored : DocumentContains(stored[i], text)

\* C6: every delta sent to the client is also a transcript fragment of the
\* Session Aggregation Buffer.
SentDeltaIsBuffered ==
    \A c \in ConnIds : obs[c].sent # NoMsg => IsBuffered(obs[c].sent.text)

\* C7: when the transcription call raises, the round sends nothing and the
\* handler goes back to receiving frames.
TranscriptionFaultKeepsConnection ==
    [][\A c \in ConnIds :
          (obs'[c].raised /\ ~obs[c].raised)
              => hpc'[c] = "recv" /\ obs'[c].sent = NoMsg]_vars

\* C8: whenever the handler is done with a frame and waits for the next one,
\* the buffer holds at most MAX_BUFFER_SIZE bytes.
BufferNeverExceedsMax ==
    \A c \in ConnIds : hpc[c] = "recv" => state[c].buffer <= MAX_BUFFER_SIZE

\* C9: after a silence frame that brings the silence counter above
\* 2 x SILENCE_CHUNKS_BEFORE_RESET, the buffer is empty, last_end_time is 0,
\* last_full_text is empty, speech_end_time is 0 and the counter is 0.
LongSilenceResets ==
    \A c \in ConnIds :
        (obs[c].kind = "silence" /\ obs[c].silence_count > SILENCE_CHUNKS_BEFORE_RESET * 2)
            => /\ state[c].buffer = 0
               /\ state[c].last_end_time = 0
               /\ state[c].last_full_text = <<>>
               /\ state[c].speech_end_time = 0
               /\ state[c].silence_counter = 0

\* a long-silence reset of a connection that had a watermark from an earlier
\* round and buffered audio
LongSilenceResetsWitness ==
    \E c \in ConnIds :
        /\ obs[c].kind = "silence"
        /\ obs[c].silence_count > SILENCE_CHUNKS_BEFORE_RESET * 2
        /\ obs[c].prev_end_time > 0
        /\ obs[c].len_after_append > 0
        /\ state[c].buffer = 0

\* C10: a frame after whose append the buffer holds at least MAX_BUFFER_SIZE
\* bytes makes the handler invoke transcription for that frame.
BufferFullInvokesTranscription ==
    \A c \in ConnIds :
        obs[c].len_after_append >= MAX_BUFFER_SIZE => obs[c].transcribed

\* the segments the reconciler is to keep: those starting no earlier than
\* 0.3 s before the watermark
IsKept(prev, segment) == segment.start >= prev - TOLERANCE

\* the texts of the kept segments, in input order
RECURSIVE KeptTexts(_, _)
KeptTexts(prev, segs) ==
    IF segs = <<>> THEN <<>>
    ELSE (IF IsKept(prev, Head(segs)) THEN Head(segs).text ELSE <<>>)
             \o KeptTexts(prev, Tail(segs))

KeptEnds(prev, segs) == {segs[i].end : i \in {j \in 1..Len(segs) : IsKept(prev, segs[j])}}

\* C11: for any watermark and ordered segment list the timestamp reconciler
\* returns the texts of exactly the segments that start at or after the
\* watermark minus 0.3 s, in input order, and a watermark that is the largest
\* of the previous watermark and the kept segments' end times.
TimestampDeltaIsKeptSegments ==
    ts_pc = "out" =>
        /\ ts_out.new_text = KeptTexts(ts_prev, ts_segs)
        /\ \A e \in KeptEnds(ts_prev, ts_segs) \cup {ts_prev} : ts_out.new_end_time >= e
        /\ ts_out.new_end_time \in KeptEnds(ts_prev, ts_segs) \cup {ts_prev}

\* the specification's example: watermark 2.0 s, segments (1.8, 2.5, "world")
\* and (2.5, 3.0, "today") give "world today" and watermark 3.0 s
TimestampExample ==
    /\ ts_pc = "out"
    /\ ts_prev = 20
    /\ ts_segs = << [start |-> 18, end |-> 25, text |-> <<w_world>>],
                    [start |-> 25, end |-> 30, text |-> <<w_today>>] >>
    /\ ts_out = [new_text |-> <<w_world, w_today>>, new_end_time |-> 30]

\* the round of connection c returned segments that all start more than
\* 0.3 s before the watermark the connection had when the round began
IsPureOverlap(c) ==
    /\ obs[c].result # <<>>
    /\ \A i \in 1..Len(obs[c].result) :
           obs[c].result[i].start < obs[c].prev_end_time - TOLERANCE

\* C12: when every segment of a pass starts before the watermark minus 0.3 s,
\* the delta is empty, the reconciler returns the watermark unchanged and the
\* handler sends no message for the round.
PureOverlapSendsNothing ==
    \A c \in ConnIds :
        IsPureOverlap(c)
            => /\ obs[c].delta = <<>>
               /\ extract_new_text_with_timestamps(obs[c].prev_end_time,
                                                     obs[c].result).new_end_time
                      = obs[c].prev_end_time
               /\ obs[c].sent = NoMsg

\* a pure-overlap round whose segments carry words, back at receiving frames
PureOverlapWitness ==
    \E c \in ConnIds :
        /\ IsPureOverlap(c)
        /\ \E i \in 1..Len(obs[c].result) : obs[c].result[i].text # <<>>
        /\ hpc[c] = "recv"
        /\ obs[c].sent = NoMsg

\* the new text has at most 80% of the previous text's normalised words and
\* its normalised form occurs in the previous text's normalised form
IsShorterAndContained(prev_text, new_text) ==
    LET prev_words == normalize_text_for_comparison(prev_text)
        new_words == normalize_text_for_comparison(new_text)
    IN  /\ 10 * Len(new_words) <= 8 * Len(prev_words)
        /\ IsSubstring(JoinChars(new_words), JoinChars(prev_words))

\* C13 as stated: whenever the new text is shorter-and-contained, the
\* fallback reconciler emits an empty delta.
ContainedEmitsNothing ==
    fb_pc = "out" =>
        (IsShorterAndContained(fb_prev, fb_new) => fb_out = <<>>)

\* C13: whenever the previous text is not empty and the new text is
\* shorter-and-contained, the fallback reconciler emits an empty delta.
ContainedAfterPreviousEmitsNothing ==
    fb_pc = "out" =>
        ((fb_prev # <<>> /\ IsShorterAndContained(fb_prev, fb_new)) => fb_out = <<>>)

\* the specification's example: "one two three four five", then "two three"
ContainedExample ==
    /\ fb_pc = "out"
    /\ fb_prev = <<w_one, w_two, w_three, w_four, w_five>>
    /\ fb_new = <<w_two, w_three>>
    /\ fb_out = <<>>

\* some suffix of k >= 3 of the last 20 normalised words of the previous text
\* is a prefix of the normalised words of the new text
HasSignificantOverlap(prev_text, new_text) ==
    LET prev_words == normalize_text_for_comparison(prev_text)
        new_words == normalize_text_for_comparison(new_text)
    IN  \E k \in 3..20 :
            /\ k <= Len(prev_words)
            /\ k <= Len(new_words)
            /\ LastN(prev_words, k) = SubSeq(new_words, 1, k)

\* C14: when the previous text is empty, or the new text is not
\* shorter-and-contained and no suffix of three or more of the previous
\* text's last 20 normalised words is a prefix of the new text's normalised
\* words, the fallback reconciler emits the new text unchanged.
NoOverlapEmitsNewText ==
    fb_pc = "out" =>
        ((\/ fb_prev = <<>>
          \/ /\ ~IsShorterAndContained(fb_prev, fb_new)
             /\ ~HasSignificantOverlap(fb_prev, fb_new))
            => fb_out = fb_new)

\* two texts that share one or two boundary words only: the new text is
\* emitted whole
NoOverlapWitness ==
    /\ fb_pc = "out"
    /\ fb_prev # <<>>
    /\ ~IsShorterAndContained(fb_prev, fb_new)
    /\ ~HasSignificantOverlap(fb_prev, fb_new)
    /\ BestOverlapLen(normalize_text_for_comparison(fb_prev),
                      normalize_text_for_comparison(fb_new)) = 2
    /\ Len(fb_new) > 2
    /\ fb_out = fb_new

\* the chunk holds the fragment, as a transcript or as a frame description
ChunkHolds(chunk, x) ==
    /\ chunk # NoChunk
    /\ \/ \E i \in DOMAIN chunk.transcripts : chunk.transcripts[i] = x
       \/ \E i \in DOMAIN chunk.frame_descriptions : chunk.frame_descriptions[i] = x

\* some stored document contains the fragment
IsStored(x) == \E i \in DOMAIN stored : DocumentContains(stored[i], x)

\* C15: when the service is stopped while the current chunk holds a
\* fragment, the final flush writes a document containing the fragment and
\* the buffer is stopped afterwards.
ShutdownDrains ==
    \A x \in TranscriptFrags \cup FrameFrags :
        (/\ \E t \in Callers : tpc[t] = "flush_lock" /\ tloc[t].origin = "shutdown"
         /\ ChunkHolds(current_chunk, x))
        ~> (IsStored(x) /\ ~is_running)

\* a chunk without transcripts and without frame descriptions
IsEmptyChunk(chunk) ==
    /\ chunk # NoChunk
    /\ chunk.transcripts = <<>>
    /\ chunk.frame_descriptions = <<>>

\* no stored document was made of an empty chunk
NoEmptyDocument ==
    \A i \in DOMAIN stored :
        stored[i].metadata.transcript_count + stored[i].metadata.frame_count > 0

AppendDuringFlushCompletes ==
    \A a \in Callers :
        (/\ tpc[a] = "append"
         /\ \E f \in Callers \ {a} : InFlush(f) /\ lock = f)
        ~> tpc[a] = "idle"

\* the service was started, its periodic task exists and no start is under way
IsServing ==
    /\ is_running
    /\ batch_task = "scheduled"
    /\ \A t \in Callers : tloc[t].op # "start"

\* C18: while the service runs with its periodic task, a fragment held by the
\* current chunk is eventually contained in a stored document.
AppendedIsEventuallyStored ==
    \A x \in TranscriptFrags \cup FrameFrags :
        (ChunkHolds(current_chunk, x) /\ IsServing)
            ~> (IsStored(x) \/ ~is_running)

\* C20: a round sends a {type: "result", text} message exactly when its
\* delta has at least one word, the text sent is that delta, and no message
\* has an empty text.
MessageIffDeltaNonEmpty ==
    [][\A c \in ConnIds :
          (hpc[c] = "transcribing" /\ hpc'[c] = "recv")
              => /\ (obs'[c].sent # NoMsg) <=> (obs'[c].delta # <<>>)
                 /\ obs'[c].sent # NoMsg
                       => /\ obs'[c].sent.type = "result"
                          /\ obs'[c].sent.text = obs'[c].delta
                          /\ obs'[c].sent.text # <<>>]_vars

\* a round that sent some of the words it transcribed and held back the rest
MessageSentWitness ==
    \E c \in ConnIds :
        /\ hpc[c] = "recv"
        /\ obs[c].transcribed
        /\ obs[c].sent # NoMsg
        /\ obs[c].sent.text = obs[c].delta
        /\ Len(obs[c].delta) < Len(JoinTexts([i \in DOMAIN obs[c].result |-> obs[c].result[i].text]))

\* caller t installs a new current chunk in this step
InstallsChunk(t) == tpc[t] = "new_chunk_lock" /\ tpc'[t] # "new_chunk_lock"

\* C23: every chunk is created with end_time - start_time equal to the batch
\* duration, and a chunk that replaces another starts no earlier than the
\* replaced chunk's end_time, so the windows of the chunks do not overlap.
ChunkWindowsDoNotOverlap ==
    [][(\E t \in Callers : InstallsChunk(t))
          => /\ current_chunk'.end_time - current_chunk'.start_time = batch_duration_sec
             /\ current_chunk # NoChunk
                   => current_chunk'.start_time >= current_chunk.end_time]_vars

\* caller f is inside a flush and has detached a chunk
HasDetached(f) == InFlush(f) /\ tloc[f].chunk # NoChunk

\* C24: an append that is ready to take the lock after a flush has detached a
\* chunk lands in the current chunk installed by that flush: the append
\* completes with its fragment in the current chunk, which is no longer the
\* detached one.
AppendAfterDetachLandsInNewChunk ==
    \A a \in Callers, x \in TranscriptFrags \cup FrameFrags :
        (/\ tpc[a] = "append"
         /\ tloc[a].arg = x
         /\ \E f \in Callers \ {a} : HasDetached(f))
        ~> (/\ tpc[a] = "idle"
            /\ ChunkHolds(current_chunk, x)
            /\ \A f \in Callers : ~HasDetached(f))

\* connection c handles a frame in this step
HandlesFrame(c) == hpc[c] = "recv" /\ state'[c] # state[c]

\* C27: the first silence frame after a speech frame sets speech_end_time to
\* the frame's arrival time and is_speaking to false; a silence frame after a
\* silence frame leaves speech_end_time as it is, unless it is the frame of a
\* long-silence hard reset.
SpeechEndIsStampedOnce ==
    [][\A c \in ConnIds :
          (HandlesFrame(c) /\ obs'[c].kind = "silence")
              => /\ obs[c].kind = "speech"
                    => /\ state'[c].speech_end_time = clock
                       /\ ~state'[c].is_speaking
                 /\ (obs[c].kind = "silence"
                       /\ obs'[c].silence_count <= SILENCE_CHUNKS_BEFORE_RESET * 2)
                    => /\ state'[c].speech_end_time = state[c].speech_end_time
                       /\ ~state'[c].is_speaking]_vars

\* the second silence frame in a row, received at a later clock reading than
\* the first, with the speech end of the first still recorded
SpeechEndKeptWitness ==
    \E c \in ConnIds :
        /\ obs[c].kind = "silence"
        /\ obs[c].silence_count = 2
        /\ state[c].speech_end_time > 0
        /\ state[c].speech_end_time < clock
        /\ ~state[c].is_speaking

\* C28: whenever is_speaking is true, silence_counter and speech_end_time
\* are 0, and after a speech frame is_speaking is true, silence_counter is 0
\* and speech_end_time is 0.
SpeakingClearsSilenceTracking ==
    \A c \in ConnIds :
        /\ state[c].is_speaking
              => state[c].silence_counter = 0 /\ state[c].speech_end_time = 0
        /\ obs[c].kind = "speech"
              => /\ state[c].is_speaking
                 /\ state[c].silence_counter = 0
                 /\ state[c].speech_end_time = 0

\* a speech frame received at least 1.0 s after a recorded speech end, with
\* enough audio buffered: the speech end is cleared
SpeechResumesWitness ==
    \E c \in ConnIds :
        /\ obs[c].kind = "speech"
        /\ obs[c].pause_ready
        /\ state[c].is_speaking
        /\ state[c].speech_end_time = 0

\* C29: transcription is invoked for a frame only if, with the frame
\* appended, the buffer holds at least MAX_BUFFER_SIZE bytes or the pause
\* conditions hold, and never with fewer than MIN_BUFFER_SIZE bytes.
TranscriptionOnlyWhenTriggered ==
    \A c \in ConnIds :
        obs[c].transcribed
            => /\ obs[c].len_after_append >= MAX_BUFFER_SIZE \/ obs[c].pause_ready
               /\ obs[c].len_after_append >= MIN_BUFFER_SIZE

\* a round started by a frame that filled the buffer
BufferFullRoundWitness ==
    \E c \in ConnIds :
        /\ obs[c].transcribed
        /\ hpc[c] = "transcribing"
        /\ obs[c].len_after_append >= MAX_BUFFER_SIZE
        /\ process_chunk[c] = MAX_BUFFER_SIZE

\* the last round of connection c returned from the transcriber
RoundReturned(c) == obs[c].transcribed /\ ~obs[c].raised /\ hpc[c] = "recv"

\* C30: after a round that returned, whatever it returned, the buffer is the
\* trailing keep_bytes bytes of the buffer the round began with (all of it
\* if it was shorter), and it is not empty.
RoundKeepsTrailingOverlap ==
    \A c \in ConnIds :
        RoundReturned(c)
            => /\ obs[c].kept.to = obs[c].len_after_append
               /\ obs[c].kept.to - obs[c].kept.from
                      = Min(obs[c].len_after_append, keep_bytes)
               /\ state[c].buffer = obs[c].kept.to - obs[c].kept.from
               /\ state[c].buffer > 0

\* a round that returned no segments and kept the last keep_bytes bytes
RoundKeepsOverlapWitness ==
    \E c \in ConnIds :
        /\ RoundReturned(c)
        /\ obs[c].result = <<>>
        /\ obs[c].kept.from > 0
        /\ state[c].buffer = keep_bytes

HandsOffTrailingSlice ==
    \A c \in ConnIds :
        obs[c].transcribed
            => /\ obs[c].handed.to = obs[c].len_after_append
               /\ SliceLen(obs[c].handed) = Min(obs[c].len_after_append, MAX_BUFFER_SIZE)
               /\ SliceLen(obs[c].handed) <= MAX_BUFFER_SIZE
               /\ hpc[c] = "transcribing" => process_chunk[c] = SliceLen(obs[c].handed)

\* a trigger with more than MAX_BUFFER_SIZE bytes buffered: the oldest bytes
\* are not handed off
HandsOffTailWitness ==
    \E c \in ConnIds :
        /\ obs[c].transcribed
        /\ hpc[c] = "transcribing"
        /\ obs[c].len_after_append > MAX_BUFFER_SIZE
        /\ obs[c].handed.from > 0
        /\ process_chunk[c] = MAX_BUFFER_SIZE

\* the frame handled in this step is the one of a long-silence hard reset
ResetsOnFrame(c) ==
    /\ HandlesFrame(c)
    /\ obs'[c].kind = "silence"
    /\ obs'[c].silence_count > SILENCE_CHUNKS_BEFORE_RESET * 2

\* C32: every frame, silence or speech, is appended to the buffer, and the
\* buffer keeps all its bytes except at the return of a round and at a
\* long-silence hard reset.
EveryFrameIsAppended ==
    [][\A c \in ConnIds :
          /\ HandlesFrame(c)
                => \E size \in FrameSizes :
                      /\ obs'[c].len_after_append = state[c].buffer + size
                      /\ ~ResetsOnFrame(c) => state'[c].buffer = state[c].buffer + size
          /\ state'[c].buffer < state[c].buffer
                => \/ ResetsOnFrame(c)
                   \/ hpc[c] = "transcribing" /\ hpc'[c] = "recv"]_vars

\* the second silence frame in a row, appended to audio already buffered
SilenceAppendedWitness ==
    \E c \in ConnIds :
        /\ obs[c].kind = "silence"
        /\ obs[c].silence_count = 2
        /\ state[c].buffer = obs[c].len_after_append
        /\ state[c].buffer > MIN_BUFFER_SIZE

\* C33: when the new full text is the previous full text again, with 3 to
\* 20 words, the fallback reconciler emits an empty delta.
RepeatedTextEmitsNothing ==
    fb_pc = "out" =>
        ((/\ fb_prev = fb_new
          /\ Len(fb_new) \in 3..20
          /\ Len(normalize_text_for_comparison(fb_new)) \in 3..20)
            => fb_out = <<>>)

\* C35: a round in which the transcriber returns no text and no segments
\* sends nothing and leaves last_end_time and last_full_text as they were.
EmptyResultKeepsReconcilerState ==
    [][\A c \in ConnIds :
          (hpc[c] = "transcribing" /\ hpc'[c] = "recv" /\ obs'[c].result = <<>>)
              => /\ obs'[c].sent = NoMsg
                 /\ state'[c].last_end_time = state[c].last_end_time
                 /\ state'[c].last_full_text = state[c].last_full_text]_vars

\* caller t is inside add_transcript or add_frame_description
InAppend(t) == tloc[t].op \in {"add_transcript", "add_frame_description"}

\* C37: when appends that found no current chunk create it concurrently, no
\* fragment is lost: a chunk installed by an append keeps every fragment the
\* current chunk held before.
ConcurrentAppendsKeepFragments ==
    [][\A t \in Callers :
          (InstallsChunk(t) /\ InAppend(t))
              => \A x \in TranscriptFrags \cup FrameFrags :
                    ChunkHolds(current_chunk, x) => ChunkHolds(current_chunk', x)]_vars

\* C38: after any frame the consecutive-silence counter lies in
\* 0 .. 2 * SILENCE_CHUNKS_BEFORE_RESET; it is 0 after a speech frame and
\* after the hard reset of a silence frame that took it past the threshold.
SilenceCounterIsBounded ==
    \A c \in ConnIds :
        /\ state[c].silence_counter \in 0 .. (2 * SILENCE_CHUNKS_BEFORE_RESET)
        /\ obs[c].kind = "speech" => state[c].silence_counter = 0
        /\ (obs[c].kind = "silence"
               /\ obs[c].silence_count > SILENCE_CHUNKS_BEFORE_RESET * 2)
              => state[c].silence_counter = 0

\* a silence frame that counted past the long-silence threshold: the hard
\* reset brought the counter back to 0
LongSilenceResetWitness ==
    \E c \in ConnIds :
        /\ obs[c].kind = "silence"
        /\ obs[c].silence_count = SILENCE_CHUNKS_BEFORE_RESET * 2 + 1
        /\ state[c].silence_counter = 0
        /\ state[c].buffer = 0

\* the fallback call went past the search for a 3-word overlap, to the
\* boundary check of lines 142-145
ReachesBoundaryCheck ==
    fallback_return_line(fb_prev, fb_new) \in {145, 148}

\* C39: the boundary check is reached only when the main search found an
\* overlap of fewer than 3 words, and then it never matches: the call leaves
\* by the last return and the result is the whole new text.
BoundaryCheckNeverMatches ==
    (fb_pc = "out" /\ ReachesBoundaryCheck)
        => /\ BestOverlapLen(normalize_text_for_comparison(fb_prev),
                             normalize_text_for_comparison(fb_new)) < 3
           /\ fallback_return_line(fb_prev, fb_new) = 148
           /\ fb_out = fb_new

\* two texts of 5 words whose ends align on exactly two words: the boundary
\* check runs its loop, finds nothing and the whole new text is returned
BoundaryCheckRunsWitness ==
    /\ fb_pc = "out"
    /\ ReachesBoundaryCheck
    /\ Len(normalize_text_for_comparison(fb_prev)) >= 5
    /\ Len(normalize_text_for_comparison(fb_new)) >= 5
    /\ BestOverlapLen(normalize_text_for_comparison(fb_prev),
                      normalize_text_for_comparison(fb_new)) = 2
    /\ fb_out = fb_new

====
